---------------------------- MODULE Spec2Model ----------------------------
(***************************************************************************)
(* Model of the content-aggregation pipeline of vilabot.cat                *)
(* (src/scraper.py): fetch, parse, filter, concurrent fan-out/fan-in,      *)
(* deduplication and the demo fallback.                                    *)
(*                                                                         *)
(* Representation of Python values:                                        *)
(*   - a str is a TLA+ string (TLC evaluates Len, \o and SubSeq on them);  *)
(*   - a value that may be None is wrapped: None is <<>>, a present value  *)
(*     v is <<v>>;                                                         *)
(*   - a dict is a record; a key that is missing is missing from DOMAIN;   *)
(*   - a list is a sequence.                                               *)
(***************************************************************************)
EXTENDS Integers, Sequences, FiniteSets, TLC

VARIABLES
    enabled,    \* SOURCES[i]["enabled"], the registry's configuration
    intent,     \* the intent dict handed to scrape_all_sources
    pc,         \* position of the scrape_all_sources call
    client,     \* the httpx.AsyncClient of the call: "none", "open", "closed"
    task,       \* per source: position of its scrape_source coroutine
    served,     \* per source: what its GET produced
    outcome,    \* per source: the outcome of its scrape_source task
    completed,  \* the sources in the order their tasks completed
    fetches,    \* per source: the URLs it has sent a GET for
    all_events, \* the list scrape_all_sources extends with the results
    ret,        \* the value scrape_all_sources returned
    call,       \* a direct call of one of the module's pure functions
    out         \* what that call returned

vars == <<enabled, intent, pc, client, task, served, outcome, completed,
          fetches, all_events, ret, call, out>>

(***************************************************************************)
(* Python values                                                           *)
(***************************************************************************)
None == <<>>

Some(v) == <<v>>

Val(o) == o[1]

\* dict.get(key, default)
Get(d, key, default) == IF key \in DOMAIN d THEN d[key] ELSE default

\* `x or ""` for an optional str
OrEmpty(o) == IF o = None \/ Val(o) = "" THEN "" ELSE Val(o)

\* str(x) as an f-string formats it
PyStr(o) == IF o = None THEN "None" ELSE Val(o)

\* truthiness of an optional str
TruthyStr(o) == o # None /\ Val(o) # ""

\* truthiness of an optional list
TruthyList(o) == o # None /\ Val(o) # <<>>

(***************************************************************************)
(* str methods                                                             *)
(***************************************************************************)
LowerTable ==
    [A |-> "a", B |-> "b", C |-> "c", D |-> "d", E |-> "e", F |-> "f",
     G |-> "g", H |-> "h", I |-> "i", J |-> "j", K |-> "k", L |-> "l",
     M |-> "m", N |-> "n", O |-> "o", P |-> "p", Q |-> "q", R |-> "r",
     S |-> "s", T |-> "t", U |-> "u", V |-> "v", W |-> "w", X |-> "x",
     Y |-> "y", Z |-> "z"]

LowerAccents ==
    ("À" :> "à") @@ ("È" :> "è") @@ ("É" :> "é") @@ ("Í" :> "í") @@
    ("Ò" :> "ò") @@ ("Ó" :> "ó") @@ ("Ú" :> "ú") @@ ("Ç" :> "ç")

LowerChar(c) ==
    IF c \in DOMAIN LowerTable THEN LowerTable[c]
    ELSE IF c \in DOMAIN LowerAccents THEN LowerAccents[c]
    ELSE c

RECURSIVE Lower(_)
Lower(s) ==
    IF s = "" THEN ""
    ELSE LowerChar(SubSeq(s, 1, 1)) \o Lower(SubSeq(s, 2, Len(s)))

Whitespace == {" ", "\t", "\n"}

RECURSIVE LStrip(_)
LStrip(s) ==
    IF s # "" /\ SubSeq(s, 1, 1) \in Whitespace
    THEN LStrip(SubSeq(s, 2, Len(s)))
    ELSE s

RECURSIVE RStrip(_)
RStrip(s) ==
    IF s # "" /\ SubSeq(s, Len(s), Len(s)) \in Whitespace
    THEN RStrip(SubSeq(s, 1, Len(s) - 1))
    ELSE s

Strip(s) == RStrip(LStrip(s))

\* s.rstrip('/')
RECURSIVE RStripSlash(_)
RStripSlash(s) ==
    IF s # "" /\ SubSeq(s, Len(s), Len(s)) = "/"
    THEN RStripSlash(SubSeq(s, 1, Len(s) - 1))
    ELSE s

StartsWith(s, p) == Len(s) >= Len(p) /\ SubSeq(s, 1, Len(p)) = p

\* `p in s` for two str
Contains(s, p) ==
    \/ p = ""
    \/ \E i \in 1..(Len(s) - Len(p) + 1) : SubSeq(s, i, i + Len(p) - 1) = p

\* sep.join(parts)
RECURSIVE Join(_, _)
Join(parts, sep) ==
    IF parts = <<>> THEN ""
    ELSE IF Len(parts) = 1 THEN parts[1]
    ELSE parts[1] \o sep \o Join(Tail(parts), sep)

\* template.format(keywords=v)
RECURSIVE FormatKeywords(_, _)
FormatKeywords(t, v) ==
    IF t = "" THEN ""
    ELSE IF StartsWith(t, "{keywords}")
         THEN v \o FormatKeywords(SubSeq(t, 11, Len(t)), v)
         ELSE SubSeq(t, 1, 1) \o FormatKeywords(SubSeq(t, 2, Len(t)), v)

(***************************************************************************)
(* SOURCES: the registry.  The "selectors" of a source are applied by      *)
(* BeautifulSoup; the model takes a document as the list of the nodes      *)
(* that selectors["event_container"] matches, each with what the field     *)
(* selectors find in it (None: select_one found no element).  "enabled"    *)
(* is the variable `enabled`: the registry is edited by hand to switch     *)
(* sources on.                                                             *)
(***************************************************************************)
SOURCES ==
    << [name |-> "Agenda Cultural Gencat",
        url |-> "https://agenda.cultura.gencat.cat",
        search_url |-> Some("https://agenda.cultura.gencat.cat/cerca?text={keywords}")],
       [name |-> "Surt de Casa",
        url |-> "https://www.surtdecasa.cat",
        search_url |-> Some("https://www.surtdecasa.cat/cerca?q={keywords}")],
       [name |-> "Barcelona Cultura",
        url |-> "https://www.barcelona.cat/barcelonacultura",
        search_url |-> Some("https://www.barcelona.cat/barcelonacultura/ca/agenda?text={keywords}")],
       [name |-> "Festa Catalunya",
        url |-> "https://www.festacatalunya.cat",
        search_url |-> Some("https://www.festacatalunya.cat/?s={keywords}")] >>

\* description[:300]
DescriptionLimit == 300

(***************************************************************************)
(* parse_events_from_html                                                  *)
(***************************************************************************)
\* elem.get_text(strip=True) if elem else None
GetText(elem) == IF elem = None THEN None ELSE Some(Strip(Val(elem)))

\* the link of a container: href is None when select_one(selectors["link"])
\* finds nothing or the element has no href attribute
ResolveLink(href, base_url) ==
    IF href = None THEN None
    ELSE IF StartsWith(Val(href), "http") THEN href
    ELSE IF StartsWith(Val(href), "/")
         THEN Some(RStripSlash(base_url) \o Val(href))
         ELSE Some(RStripSlash(base_url) \o "/" \o Val(href))

\* description[:300] if description else None
Truncate(description) ==
    IF TruthyStr(description)
    THEN Some(SubSeq(Val(description), 1,
                     IF Len(Val(description)) < DescriptionLimit
                     THEN Len(Val(description)) ELSE DescriptionLimit))
    ELSE None

\* the dict appended for one container
ParseContainer(container, source, base_url) ==
    [title |-> GetText(container.title),
     date |-> GetText(container.date),
     location |-> GetText(container.location),
     description |-> Truncate(GetText(container.description)),
     source_url |-> ResolveLink(container.href, base_url),
     source_name |-> source.name]

RECURSIVE ParseEventsFromHtml(_, _, _)
ParseEventsFromHtml(html, source, base_url) ==
    IF html = <<>> THEN <<>>
    ELSE IF ~TruthyStr(GetText(Head(html).title))
         THEN ParseEventsFromHtml(Tail(html), source, base_url)
         ELSE <<ParseContainer(Head(html), source, base_url)>>
              \o ParseEventsFromHtml(Tail(html), source, base_url)

(***************************************************************************)
(* filter_events_by_keywords, filter_events_by_location                    *)
(***************************************************************************)
\* " ".join([title or "", description or "", location or ""]).lower()
EventText(event) ==
    Lower(Join(<<OrEmpty(Get(event, "title", Some(""))),
                 OrEmpty(Get(event, "description", Some(""))),
                 OrEmpty(Get(event, "location", Some("")))>>, " "))

\* KeywordMatch with the keywords not lowercased
KeywordMatchCaseSensitive(event, keywords) ==
    \E i \in 1..Len(keywords) : Contains(EventText(event), keywords[i])

\* any(kw in text for kw in keywords_lower)
KeywordMatch(event, keywords) ==
    \E i \in 1..Len(keywords) : Contains(EventText(event), Lower(keywords[i]))

FilterEventsByKeywords(events, keywords) ==
    IF ~TruthyList(keywords) THEN events
    ELSE SelectSeq(events, LAMBDA e : KeywordMatch(e, Val(keywords)))

LocationMatch(event, location) ==
    \/ Contains(Lower(OrEmpty(Get(event, "location", Some("")))), Lower(location))
    \/ Contains(Lower(OrEmpty(Get(event, "title", Some("")))), Lower(location))
    \/ Contains(Lower(OrEmpty(Get(event, "description", Some("")))), Lower(location))

\* FilterEventsByLocation returning from inside the loop, at the first match
FilterEventsByLocationFirst(events, location) ==
    IF ~TruthyStr(location) THEN events
    ELSE LET filtered == SelectSeq(events, LAMBDA e : LocationMatch(e, Val(location)))
         IN  IF filtered = <<>> THEN <<>> ELSE <<Head(filtered)>>

FilterEventsByLocation(events, location) ==
    IF ~TruthyStr(location) THEN events
    ELSE SelectSeq(events, LAMBDA e : LocationMatch(e, Val(location)))

(***************************************************************************)
(* _deduplicate_events                                                     *)
(***************************************************************************)
\* event.get("title", "").lower().strip(); a title that is None has no
\* lower(): DeduplicateRaises
NormTitle(event) == Strip(Lower(Val(Get(event, "title", Some("")))))

DeduplicateRaises(events) ==
    \E i \in 1..Len(events) : Get(events[i], "title", Some("")) = None

\* DedupLoop with seen_titles.add(title) forgotten
RECURSIVE DedupLoopNoAdd(_, _, _)
DedupLoopNoAdd(events, seen_titles, unique) ==
    IF events = <<>> THEN unique
    ELSE IF NormTitle(Head(events)) # "" /\ NormTitle(Head(events)) \notin seen_titles
         THEN DedupLoopNoAdd(Tail(events), seen_titles, Append(unique, Head(events)))
         ELSE DedupLoopNoAdd(Tail(events), seen_titles, unique)

RECURSIVE DedupLoop(_, _, _)
DedupLoop(events, seen_titles, unique) ==
    IF events = <<>> THEN unique
    ELSE IF NormTitle(Head(events)) # "" /\ NormTitle(Head(events)) \notin seen_titles
         THEN DedupLoop(Tail(events), seen_titles \cup {NormTitle(Head(events))},
                        Append(unique, Head(events)))
         ELSE DedupLoop(Tail(events), seen_titles, unique)

DeduplicateEvents(events) == DedupLoop(events, {}, <<>>)

(***************************************************************************)
(* _get_demo_events                                                        *)
(***************************************************************************)
DemoLocation(dict) == Get(dict, "location", Some("Catalunya"))

DemoKeywords(dict) == Get(dict, "keywords", Some(<<>>))

\* `for kw in keywords` over None: TypeError
DemoRaises(dict) == DemoKeywords(dict) = None

BaseDemoEvents(location) ==
    << [title |-> Some("Festa Major de " \o PyStr(location)),
        date |-> Some("15-18 d'agost de 2025"),
        location |-> location,
        description |-> Some("Quatre dies de festa amb concerts, correfocs, gegants i activitats per a tota la família. No et perdis el castell de focs artificials!"),
        source_url |-> Some("https://example.com/festa-major"),
        source_name |-> "Demo"],
       [title |-> Some("Mercat d'Artesania Local"),
        date |-> Some("Cada dissabte"),
        location |-> Some("Plaça Major, " \o PyStr(location)),
        description |-> Some("Descobreix productes artesanals de la zona: ceràmica, teixits, productes d'alimentació i molt més."),
        source_url |-> Some("https://example.com/mercat"),
        source_name |-> "Demo"],
       [title |-> Some("Ruta de Tapes Gastronòmiques"),
        date |-> Some("Del 20 al 27 d'agost"),
        location |-> Some("Diversos restaurants de " \o PyStr(location)),
        description |-> Some("Gaudeix de les millors tapes dels restaurants locals amb una experiència culinària única."),
        source_url |-> Some("https://example.com/tapes"),
        source_name |-> "Demo"] >>

JazzEvent(location) ==
    [title |-> Some("Festival de Jazz al Carrer"),
     date |-> Some("22 d'agost de 2025, 21:00h"),
     location |-> Some("Parc Central, " \o PyStr(location)),
     description |-> Some("Concert gratuït amb les millors bandes de jazz de Catalunya. Porta la teva manta i gaudeix sota les estrelles."),
     source_url |-> Some("https://example.com/jazz"),
     source_name |-> "Demo"]

FamilyEvent(location) ==
    [title |-> Some("Taller de Circ per a Nens"),
     date |-> Some("Diumenge 24 d'agost, 11:00h"),
     location |-> Some("Centre Cívic de " \o PyStr(location)),
     description |-> Some("Activitat gratuïta per a nens de 4 a 12 anys. Aprenen malabars, equilibri i molt més!"),
     source_url |-> Some("https://example.com/circ"),
     source_name |-> "Demo"]

MusicWords == {"música", "concert", "jazz"}

FamilyWords == {"nens", "familiar", "infantil", "família"}

\* AnyKeywordIn matching a word inside a keyword
AnyKeywordContains(keywords, words) ==
    \E i \in 1..Len(keywords) : \E w \in words : Contains(keywords[i], w)

\* any(kw in [...] for kw in keywords): list membership, so equality
AnyKeywordIn(keywords, words) ==
    \E i \in 1..Len(keywords) : keywords[i] \in words

\* demo_events.insert(0, jazz) if the music words trigger
WithJazz(demo_events, keywords, location) ==
    IF AnyKeywordIn(keywords, MusicWords)
    THEN <<JazzEvent(location)>> \o demo_events
    ELSE demo_events

\* demo_events.insert(0, family) if the family words trigger
WithFamily(demo_events, keywords, location) ==
    IF AnyKeywordIn(keywords, FamilyWords)
    THEN <<FamilyEvent(location)>> \o demo_events
    ELSE demo_events

GetDemoEvents(dict) ==
    WithFamily(WithJazz(BaseDemoEvents(DemoLocation(dict)),
                        Val(DemoKeywords(dict)), DemoLocation(dict)),
               Val(DemoKeywords(dict)), DemoLocation(dict))

(***************************************************************************)
(* scrape_source                                                           *)
(***************************************************************************)
\* the URL scrape_source requests
BuildUrl(source, dict) ==
    LET keywords == Get(dict, "keywords", Some(<<>>))
        keywords_str == IF TruthyList(keywords) THEN Join(Val(keywords), " ") ELSE ""
    IN  IF TruthyStr(Get(source, "search_url", None)) /\ keywords_str # ""
        THEN FormatKeywords(Val(source.search_url), keywords_str)
        ELSE source.url

\* html = await fetch_url(client, url): the text of a 2xx response, None
\* when client.get or raise_for_status raises an httpx.HTTPError
FetchUrl(response) == IF response.kind = "ok" THEN Some(response.html) ELSE None

\* `not html`: None, or the empty body, which holds no container
NoHtml(html) == html = None \/ Val(html) = <<>>

\* what scrape_source returns once its GET has produced `response`; a
\* response of kind "exception" is an error that is no httpx.HTTPError,
\* which fetch_url does not catch
ScrapeSource(source, dict, response) ==
    IF response.kind = "exception" THEN [kind |-> "exception"]
    ELSE IF NoHtml(FetchUrl(response)) THEN [kind |-> "list", value |-> <<>>]
    ELSE [kind |-> "list",
          value |-> FilterEventsByLocation(
                        FilterEventsByKeywords(
                            ParseEventsFromHtml(Val(FetchUrl(response)), source, source.url),
                            Get(dict, "keywords", Some(<<>>))),
                        Get(dict, "location", None))]

(***************************************************************************)
(* scrape_all_sources                                                      *)
(***************************************************************************)
\* [s for s in SOURCES if s.get("enabled", False)], as registry positions
EnabledSources(flags) == SelectSeq([i \in 1..Len(flags) |-> i], LAMBDA i : flags[i])

\* GatherResults in the order the tasks completed
GatherResultsAsCompleted(tasks, done_order, outcomes) ==
    [k \in 1..Len(tasks) |-> outcomes[done_order[k]]]

\* results = await asyncio.gather(*tasks, return_exceptions=True): one
\* result per awaitable, in the order of the awaitables
GatherResults(tasks, done_order, outcomes) ==
    [k \in 1..Len(tasks) |-> outcomes[tasks[k]]]

\* ExtendAll leaving the loop at the first exception
RECURSIVE ExtendAllUntilError(_)
ExtendAllUntilError(results) ==
    IF results = <<>> THEN <<>>
    ELSE IF Head(results).kind = "list"
         THEN Head(results).value \o ExtendAllUntilError(Tail(results))
         ELSE <<>>

\* for result in results: all_events.extend(result) if it is a list
RECURSIVE ExtendAll(_)
ExtendAll(results) ==
    IF results = <<>> THEN <<>>
    ELSE IF Head(results).kind = "list"
         THEN Head(results).value \o ExtendAll(Tail(results))
         ELSE ExtendAll(Tail(results))

DemoResult(dict) ==
    [content |-> GetDemoEvents(dict), sources_scraped |-> 0, events_found |-> 3]

ScrapeResult(unique_events, enabled_sources) ==
    [content |-> unique_events,
     sources_scraped |-> Len(enabled_sources),
     events_found |-> Len(unique_events)]

(***************************************************************************)
(* Bounds and input domains                                                *)
(***************************************************************************)
MaxEvents == 3

MaxContainers == 2

MaxKeywords == 2

\* sequences over S of length 0..n
SeqsUpTo(S, n) == UNION {[1..k -> S] : k \in 0..n}

\* an event dict as parse_events_from_html builds it
Event(title, description, location, name) ==
    [title |-> title, date |-> None, location |-> location,
     description |-> description, source_url |-> None, source_name |-> name]

\* the variables of a scrape_all_sources call, when none is running
NoScrape ==
    /\ enabled = <<>>
    /\ intent = [keywords |-> Some(<<>>)]
    /\ pc = "idle"
    /\ client = "none"
    /\ task = <<>>
    /\ served = <<>>
    /\ outcome = <<>>
    /\ completed = <<>>
    /\ fetches = <<>>
    /\ all_events = <<>>
    /\ ret = None

scrapeVars == <<enabled, intent, pc, client, task, served, outcome, completed,
                fetches, all_events, ret>>

NoOut == [status |-> "none"]

(***************************************************************************)
(* _deduplicate_events, called directly                                    *)
(***************************************************************************)
DedupEvents ==
    { Event(Some("Jazz a la Fresca"), None, None, "A"),
      Event(Some("  JAZZ A LA FRESCA "), Some("nit"), None, "B"),
      Event(Some("jazz a la fresca"), None, Some("Girona"), "C"),
      Event(Some("Fira"), None, None, "A"),
      Event(Some(" \t"), None, None, "B"),
      Event(Some(""), None, None, "C"),
      [source_name |-> "D", location |-> Some("Vic")] }

InitDedup ==
    /\ NoScrape
    /\ call \in {[fn |-> "dedup", events |-> e] : e \in SeqsUpTo(DedupEvents, MaxEvents)}
    /\ out = NoOut

CallDedup ==
    /\ call.fn = "dedup"
    /\ out = NoOut
    /\ out' = IF DeduplicateRaises(call.events)
              THEN [status |-> "raised"]
              ELSE [status |-> "returned", value |-> DeduplicateEvents(call.events)]
    /\ UNCHANGED <<call, scrapeVars>>

SpecDedup == InitDedup /\ [][CallDedup]_vars

(***************************************************************************)
(* parse_events_from_html, called directly                                 *)
(***************************************************************************)
Container(title, href) ==
    [title |-> title, date |-> None, location |-> Some(" Vic "),
     description |-> Some("Concert a la plaça"), href |-> href]

ParseContainers ==
    { Container(Some(" Fira "), Some("/agenda/1")),
      Container(Some("Concert"), Some("https://entrades.cat/e/2")),
      Container(Some("Mercat"), Some("http://entrades.cat/e/3")),
      Container(Some("Taller"), Some("agenda/4")),
      Container(Some("Ruta"), None),
      Container(Some("  "), Some("/agenda/6")),
      Container(None, Some("/agenda/7")) }

BaseUrls ==
    { SOURCES[i].url : i \in 1..Len(SOURCES) }
        \cup {"https://www.surtdecasa.cat/", "http://localhost:8000"}

InitParse ==
    /\ NoScrape
    /\ call \in {[fn |-> "parse", html |-> h, source |-> SOURCES[1], base_url |-> b] :
                    h \in SeqsUpTo(ParseContainers, MaxContainers), b \in BaseUrls}
    /\ out = NoOut

CallParse ==
    /\ call.fn = "parse"
    /\ out = NoOut
    /\ out' = [status |-> "returned",
               value |-> ParseEventsFromHtml(call.html, call.source, call.base_url)]
    /\ UNCHANGED <<call, scrapeVars>>

SpecParse == InitParse /\ [][CallParse]_vars

(***************************************************************************)
(* The filter stage of scrape_source, called directly:                     *)
(*   events = filter_events_by_keywords(events, keywords)                  *)
(*   events = filter_events_by_location(events, intent.get("location"))    *)
(***************************************************************************)
FilterEvents ==
    { Event(Some("Festa"), Some("Major de Gràcia"), Some("Barcelona"), "A"),
      Event(Some("Nit de Jazz"), None, Some("Girona"), "A"),
      Event(Some("Fira de Girona"), Some(""), None, "B"),
      Event(Some("Concert"), Some("jazz i blues"), Some("Vic"), "B"),
      [title |-> Some("Mercat"), source_name |-> "C"] }

FilterKeywords ==
    { None, Some(<<>>), Some(<<"JAZZ">>), Some(<<"festa major">>),
      Some(<<"tamajor">>), Some(<<"teatre", "fira">>), Some(<<"">>) }

FilterLocations == { None, Some(""), Some("Girona"), Some("gIRONA"), Some("vic") }

InitFilter ==
    /\ NoScrape
    /\ call \in {[fn |-> "filter", events |-> e, keywords |-> k, location |-> l] :
                    e \in SeqsUpTo(FilterEvents, MaxEvents),
                    k \in FilterKeywords, l \in FilterLocations}
    /\ out = NoOut

CallFilterKeywords ==
    /\ call.fn = "filter"
    /\ out = NoOut
    /\ out' = [status |-> "keywords",
               value |-> FilterEventsByKeywords(call.events, call.keywords)]
    /\ UNCHANGED <<call, scrapeVars>>

CallFilterLocation ==
    /\ call.fn = "filter"
    /\ out.status = "keywords"
    /\ out' = [status |-> "returned",
               value |-> FilterEventsByLocation(out.value, call.location)]
    /\ UNCHANGED <<call, scrapeVars>>

NextFilter == CallFilterKeywords \/ CallFilterLocation

SpecFilter == InitFilter /\ [][NextFilter]_vars

(***************************************************************************)
(* _get_demo_events, called directly                                       *)
(***************************************************************************)
DemoWords == {"jazz", "Jazz", "jazzband", "concert", "nens", "teatre"}

DemoLocations == { None, Some("Girona"), Some("") }

DemoIntents ==
    {[keywords |-> k, location |-> l] :
        k \in {None} \cup {Some(w) : w \in SeqsUpTo(DemoWords, MaxKeywords)},
        l \in DemoLocations}
    \cup {[keywords |-> Some(w)] : w \in SeqsUpTo(DemoWords, MaxKeywords)}
    \cup {[location |-> l] : l \in DemoLocations}
    \cup {[original_query |-> "que fer?"]}

InitDemo ==
    /\ NoScrape
    /\ call \in {[fn |-> "demo", intent |-> i] : i \in DemoIntents}
    /\ out = NoOut

CallDemo ==
    /\ call.fn = "demo"
    /\ out = NoOut
    /\ out' = IF DemoRaises(call.intent)
              THEN [status |-> "raised"]
              ELSE [status |-> "returned", value |-> GetDemoEvents(call.intent)]
    /\ UNCHANGED <<call, scrapeVars>>

SpecDemo == InitDemo /\ [][CallDemo]_vars

(***************************************************************************)
(* One call of scrape_all_sources                                          *)
(***************************************************************************)
MaxSources == 2

Registry == 1..MaxSources

ScrapeContainer(title, location, href) ==
    [title |-> Some(title), date |-> None, location |-> Some(location),
     description |-> None, href |-> Some(href)]

\* what a GET can produce: a transport error or an error status, an
\* error of another kind, or a page
Responses ==
    { [kind |-> "http_error"],
      [kind |-> "exception"],
      [kind |-> "ok", html |-> <<>>],
      [kind |-> "ok", html |-> << ScrapeContainer("Nit de Jazz", "Girona", "/e/1"),
                                  ScrapeContainer("Fira", "Vic", "/e/2") >>],
      [kind |-> "ok", html |-> << ScrapeContainer(" nit de JAZZ ", "Auditori de Girona", "e/3"),
                                  ScrapeContainer("Mercat", "Girona", "/e/4") >>] }

\* intents as extract_query_intent hands them over: the model's JSON, or
\* the fallback with every optional field None
ScrapeIntents ==
    {[keywords |-> k, location |-> l] :
        k \in {None, Some(<<>>), Some(<<"jazz">>), Some(<<"jazz", "nens">>)},
        l \in {None, Some("Girona")}}
    \cup {[keywords |-> Some(<<"jazz">>)], [location |-> Some("Girona")]}
    \cup {[keywords |-> Some(<<"que", "fer">>), location |-> None,
           date_range |-> None, category |-> None,
           original_query |-> "que fer"]}

Init ==
    /\ enabled \in [Registry -> BOOLEAN]
    /\ intent \in ScrapeIntents
    /\ pc = "start"
    /\ client = "none"
    /\ task = [i \in Registry |-> "none"]
    /\ served = [i \in Registry |-> None]
    /\ outcome = [i \in Registry |-> None]
    /\ completed = <<>>
    /\ fetches = [i \in Registry |-> <<>>]
    /\ all_events = <<>>
    /\ ret = None
    /\ call = [fn |-> "scrape_all_sources"]
    /\ out = NoOut

\* no source enabled: return the demo data
ReturnDemo ==
    /\ pc = "start"
    /\ EnabledSources(enabled) = <<>>
    /\ IF DemoRaises(intent)
       THEN pc' = "raised" /\ ret' = ret
       ELSE pc' = "done" /\ ret' = Some(DemoResult(intent))
    /\ UNCHANGED <<enabled, intent, client, task, served, outcome, completed,
                   fetches, all_events, call, out>>

\* async with httpx.AsyncClient() as client: a coroutine per enabled source
OpenClient ==
    /\ pc = "start"
    /\ EnabledSources(enabled) # <<>>
    /\ client' = "open"
    /\ task' = [i \in Registry |-> IF enabled[i] THEN "created" ELSE "none"]
    /\ pc' = "gather"
    /\ UNCHANGED <<enabled, intent, served, outcome, completed, fetches,
                   all_events, ret, call, out>>

\* TaskAfterResponse starting the coroutine over after an HTTP error
TaskRetriesOnError(response) ==
    IF response.kind = "http_error" THEN "created" ELSE "done"

\* where a scrape_source coroutine stands once its GET has ended: fetch_url
\* makes one client.get and scrape_source returns, whatever came back
TaskAfterResponse(response) == "done"

\* a scrape_source coroutine runs up to `await client.get(...)`
TaskFetch(i) ==
    /\ pc = "gather"
    /\ task[i] = "created"
    /\ IF ~enabled[i]
       THEN \* if not source.get("enabled", False): return []
            /\ task' = [task EXCEPT ![i] = "done"]
            /\ outcome' = [outcome EXCEPT ![i] = Some([kind |-> "list", value |-> <<>>])]
            /\ completed' = Append(completed, i)
            /\ fetches' = fetches
       ELSE /\ task' = [task EXCEPT ![i] = "fetching"]
            /\ fetches' = [fetches EXCEPT ![i] = Append(@, BuildUrl(SOURCES[i], intent))]
            /\ UNCHANGED <<outcome, completed>>
    /\ UNCHANGED <<enabled, intent, pc, client, served, all_events, ret, call, out>>

\* the GET of source i ends and its coroutine runs to its end
TaskComplete(i, response) ==
    /\ pc = "gather"
    /\ task[i] = "fetching"
    /\ served' = [served EXCEPT ![i] = Some(response)]
    /\ outcome' = [outcome EXCEPT ![i] = Some(ScrapeSource(SOURCES[i], intent, response))]
    /\ task' = [task EXCEPT ![i] = TaskAfterResponse(response)]
    /\ completed' = Append(completed, i)
    /\ UNCHANGED <<enabled, intent, pc, client, fetches, all_events, ret, call, out>>

\* AllTasksDone satisfied by the first task that completes
AnyTaskDone(tasks) == \E i \in DOMAIN tasks : tasks[i] = "done"

\* await asyncio.gather(*tasks, ...) resumes when every awaitable has
\* returned or raised
AllTasksDone(tasks) == \A i \in DOMAIN tasks : tasks[i] \in {"none", "done"}

\* gather returns once every task is done; the results are merged
Gather ==
    /\ pc = "gather"
    /\ AllTasksDone(task)
    /\ all_events' = ExtendAll(GatherResults(EnabledSources(enabled), completed,
                                             [i \in Registry |-> IF outcome[i] = None
                                                                 THEN [kind |-> "none"]
                                                                 ELSE Val(outcome[i])]))
    /\ pc' = "merged"
    /\ UNCHANGED <<enabled, intent, client, task, served, outcome, completed,
                   fetches, ret, call, out>>

\* the client is closed, the events deduplicated and the result returned
Return ==
    /\ pc = "merged"
    /\ client' = "closed"
    /\ IF DeduplicateRaises(all_events)
       THEN pc' = "raised" /\ ret' = ret
       ELSE /\ pc' = "done"
            /\ ret' = Some(ScrapeResult(DeduplicateEvents(all_events),
                                        EnabledSources(enabled)))
    /\ UNCHANGED <<enabled, intent, task, served, outcome, completed, fetches,
                   all_events, call, out>>

Next ==
    \/ ReturnDemo
    \/ OpenClient
    \/ \E i \in Registry : TaskFetch(i)
    \/ \E i \in Registry : \E response \in Responses : TaskComplete(i, response)
    \/ Gather
    \/ Return

Spec == Init /\ [][Next]_vars

(***************************************************************************)
(* Properties of the pure functions                                        *)
(***************************************************************************)
DedupReturned == call.fn = "dedup" /\ out.status = "returned"

\* the positions of the input whose record is the first with its
\* non-empty normalized title
FirstPositions(events) ==
    {i \in 1..Len(events) :
        /\ NormTitle(events[i]) # ""
        /\ \A j \in 1..(i - 1) : NormTitle(events[j]) # NormTitle(events[i])}

\* u is the subsequence of events at the positions P, in input order
IsSubsequenceAt(u, events, P) ==
    /\ Len(u) = Cardinality(P)
    /\ \A k \in 1..Len(u) :
          \E i \in P : /\ u[k] = events[i]
                       /\ Cardinality({j \in P : j < i}) = k - 1

\* C5: _deduplicate_events returns a subsequence of its input with no two
\* equal normalized titles; the record kept for a normalized title is the
\* first of the input with it, and every non-empty normalized title of the
\* input is in the output.
C5_DedupFirstOccurrence ==
    DedupReturned =>
        /\ IsSubsequenceAt(out.value, call.events, FirstPositions(call.events))
        /\ \A k, l \in 1..Len(out.value) :
              k # l => NormTitle(out.value[k]) # NormTitle(out.value[l])
        /\ \A i \in 1..Len(call.events) :
              NormTitle(call.events[i]) # "" =>
                 \E k \in 1..Len(out.value) :
                    NormTitle(out.value[k]) = NormTitle(call.events[i])

\* a call whose input repeats a normalized title in a different spelling
C5_Witness ==
    /\ DedupReturned
    /\ Len(call.events) = 3
    /\ Len(out.value) = 2
    /\ \E i, j \in 1..3 :
          /\ i < j
          /\ call.events[i] # call.events[j]
          /\ NormTitle(call.events[i]) = NormTitle(call.events[j])
          /\ out.value[1] = call.events[i]

ParseReturned == call.fn = "parse" /\ out.status = "returned"

\* the containers parse_events_from_html keeps: those with a title
TitledContainers(html) ==
    SelectSeq(html, LAMBDA c : c.title # None /\ Strip(Val(c.title)) # "")

\* the position of the first "/" of url at or after position i, or
\* Len(url) + 1
RECURSIVE NextSlash(_, _)
NextSlash(url, i) ==
    IF i > Len(url) \/ SubSeq(url, i, i) = "/" THEN i ELSE NextSlash(url, i + 1)

\* scheme://host[:port] of an absolute URL
Origin(url) ==
    LET k == CHOOSE i \in 1..Len(url) : SubSeq(url, i, i + 2) = "://"
    IN  SubSeq(url, 1, NextSlash(url, k + 3) - 1)

\* C6: in parse_events_from_html an href starting with "/" gives
\* source_url = origin of base_url followed by the href, for any base_url;
\* an absolute, scheme-prefixed href passes through unchanged.
C6_RootRelativeUsesOrigin ==
    ParseReturned =>
        LET kept == TitledContainers(call.html) IN
        /\ Len(out.value) = Len(kept)
        /\ \A k \in 1..Len(kept) :
              /\ (kept[k].href # None /\ StartsWith(Val(kept[k].href), "/"))
                    => out.value[k].source_url
                         = Some(Origin(call.base_url) \o Val(kept[k].href))
              /\ (kept[k].href # None
                    /\ (StartsWith(Val(kept[k].href), "http://")
                          \/ StartsWith(Val(kept[k].href), "https://")))
                    => out.value[k].source_url = kept[k].href

KeywordsFiltered == call.fn = "filter" /\ out.status = "keywords"

FieldOrEmpty(event, key) ==
    IF key \in DOMAIN event /\ event[key] # None THEN Val(event[key]) ELSE ""

\* some keyword is, case-insensitively, a substring of text
SomeKeywordIn(keywords, text) ==
    \E i \in 1..Len(keywords) : Contains(Lower(text), Lower(keywords[i]))

NoKeywords(keywords) == keywords = None \/ Val(keywords) = <<>>

\* C7 as stated: filter_events_by_keywords keeps a record iff the keyword
\* list is empty or some keyword is, case-insensitively, a substring of the
\* concatenation of title, description and location.
C7_KeywordsInConcatenation ==
    KeywordsFiltered =>
        out.value = SelectSeq(call.events, LAMBDA e :
            \/ NoKeywords(call.keywords)
            \/ SomeKeywordIn(Val(call.keywords),
                  FieldOrEmpty(e, "title") \o FieldOrEmpty(e, "description")
                     \o FieldOrEmpty(e, "location")))

\* C7, amended: filter_events_by_keywords keeps a record iff the keyword
\* list is empty or some keyword is, case-insensitively, a substring of
\* title, description and location joined by single spaces (a missing or
\* null field is the empty string); the output is the records that pass, in
\* input order, and with an empty keyword list it equals the input.
C7_KeywordsInSpaceJoined ==
    KeywordsFiltered =>
        /\ out.value = SelectSeq(call.events, LAMBDA e :
              \/ NoKeywords(call.keywords)
              \/ SomeKeywordIn(Val(call.keywords),
                    FieldOrEmpty(e, "title") \o " " \o FieldOrEmpty(e, "description")
                       \o " " \o FieldOrEmpty(e, "location")))
        /\ NoKeywords(call.keywords) => out.value = call.events

\* a keyword in another case than the text keeps one record and drops another
C7_Witness ==
    /\ KeywordsFiltered
    /\ call.keywords = Some(<<"JAZZ">>)
    /\ Len(call.events) = 2
    /\ Len(out.value) = 1
    /\ out.value[1] = call.events[2]

FiltersReturned == call.fn = "filter" /\ out.status = "returned"

PassesKeywords(e, keywords) == FilterEventsByKeywords(<<e>>, keywords) = <<e>>

PassesLocation(e, location) == FilterEventsByLocation(<<e>>, location) = <<e>>

\* C10: the keyword filter and the location filter commute as sequences, a
\* record survives iff it passes both, and the call leaves its input as it
\* was.
C10_FiltersCommute ==
    /\ [](FiltersReturned =>
            /\ out.value
                 = FilterEventsByKeywords(
                      FilterEventsByLocation(call.events, call.location),
                      call.keywords)
            /\ out.value = SelectSeq(call.events, LAMBDA e :
                  /\ PassesKeywords(e, call.keywords)
                  /\ PassesLocation(e, call.location)))
    /\ [][call' = call]_vars

\* both filters are active, each drops a record the other keeps
C10_Witness ==
    /\ FiltersReturned
    /\ TruthyList(call.keywords)
    /\ TruthyStr(call.location)
    /\ Len(call.events) = 3
    /\ Len(out.value) = 1
    /\ \E i \in 1..3 : /\ PassesKeywords(call.events[i], call.keywords)
                       /\ ~PassesLocation(call.events[i], call.location)
    /\ \E i \in 1..3 : /\ ~PassesKeywords(call.events[i], call.keywords)
                       /\ PassesLocation(call.events[i], call.location)

DemoReturned == call.fn = "demo" /\ out.status = "returned"

LocationAbsent(dict) == "location" \notin DOMAIN dict \/ dict.location = None

\* the three baseline records and the two bonus records, for a place name
TemplatedWith(events, place) ==
    \A k \in 1..Len(events) :
        /\ events[k].location # None
        /\ Contains(Val(events[k].location), place)
        /\ StartsWith(Val(events[k].title), "Festa Major de ")
              => Val(events[k].title) = "Festa Major de " \o place
        /\ ~Contains(Val(events[k].location), "None")
        /\ ~Contains(Val(events[k].title), "None")

\* C8: when the intent's location is absent (key missing or value null)
\* every record of _get_demo_events is templated with "Catalunya"; when a
\* location is given, with that location.
C8_DemoDefaultLocation ==
    DemoReturned =>
        IF LocationAbsent(call.intent)
        THEN TemplatedWith(out.value, "Catalunya")
        ELSE TemplatedWith(out.value, Val(call.intent.location))

TriggersFamily(keywords) ==
    \E i \in 1..Len(keywords) :
        keywords[i] \in {"nens", "familiar", "infantil", "família"}

TriggersJazz(keywords) ==
    \E i \in 1..Len(keywords) : keywords[i] \in {"música", "concert", "jazz"}

\* C9: _get_demo_events returns [family record if a keyword equals a family
\* word, jazz record if a keyword equals a music word, festival, market,
\* tapas route] in that order; the triggers are independent and exact, and
\* the count is 3, 4 or 5.
C9_DemoOrder ==
    DemoReturned =>
        LET kws == Val(DemoKeywords(call.intent))
            fam == IF TriggersFamily(kws) THEN 1 ELSE 0
            jaz == IF TriggersJazz(kws) THEN 1 ELSE 0
            titles == [k \in 1..Len(out.value) |-> Val(out.value[k].title)]
        IN  /\ Len(out.value) = 3 + fam + jaz
            /\ Len(out.value) \in {3, 4, 5}
            /\ fam = 1 => titles[1] = "Taller de Circ per a Nens"
            /\ jaz = 1 => titles[fam + 1] = "Festival de Jazz al Carrer"
            /\ StartsWith(titles[fam + jaz + 1], "Festa Major de ")
            /\ titles[fam + jaz + 2] = "Mercat d'Artesania Local"
            /\ titles[fam + jaz + 3] = "Ruta de Tapes Gastronòmiques"

\* both bonus records, triggered by keywords given jazz first
C9_Witness ==
    /\ DemoReturned
    /\ DemoKeywords(call.intent) = Some(<<"jazz", "nens">>)
    /\ Len(out.value) = 5

(***************************************************************************)
(* Properties of scrape_all_sources                                        *)
(***************************************************************************)
Returned == pc = "done" /\ ret # None

NoneEnabled == \A i \in Registry : ~enabled[i]

\* the number of bonus categories the intent's keywords trigger
Bonus(dict) ==
    LET kws == IF "keywords" \in DOMAIN dict /\ dict.keywords # None
               THEN Val(dict.keywords) ELSE <<>>
    IN  (IF TriggersFamily(kws) THEN 1 ELSE 0) + (IF TriggersJazz(kws) THEN 1 ELSE 0)

\* C1: with no source enabled scrape_all_sources returns the demo events of
\* the intent as content, sources_scraped = 0 and events_found = 3 plus the
\* number of triggered bonus categories, which is the length of content.
C1_DemoEventsFound ==
    (Returned /\ NoneEnabled) =>
        /\ Val(ret).content = GetDemoEvents(intent)
        /\ Val(ret).sources_scraped = 0
        /\ Val(ret).events_found = 3 + Bonus(intent)
        /\ Val(ret).events_found = Len(Val(ret).content)

\* C2: scrape_all_sources never raises to its caller, whatever the intent
\* (fields missing or null) and the registry configuration; when it ends it
\* has returned content, sources_scraped and events_found.
C2_NeverRaises ==
    /\ pc # "raised"
    /\ pc = "done" =>
          /\ ret # None
          /\ {"content", "sources_scraped", "events_found"} \subseteq DOMAIN Val(ret)

\* the enabled sources, in registry order
EnabledInOrder == SelectSeq([i \in 1..MaxSources |-> i], LAMBDA i : enabled[i])

Failed(i) == enabled[i] /\ served[i] # None /\ Val(served[i]).kind # "ok"

\* what the fetch-parse-filter pipeline of source i yields for the page it
\* was served; nothing when its fetch failed
Pipeline(i) ==
    IF served[i] = None \/ Val(served[i]).kind # "ok" THEN <<>>
    ELSE FilterEventsByLocation(
             FilterEventsByKeywords(
                 ParseEventsFromHtml(Val(served[i]).html, SOURCES[i], SOURCES[i].url),
                 Get(intent, "keywords", Some(<<>>))),
             Get(intent, "location", None))

RECURSIVE ConcatPipelines(_)
ConcatPipelines(sources) ==
    IF sources = <<>> THEN <<>>
    ELSE Pipeline(Head(sources)) \o ConcatPipelines(Tail(sources))

\* C3: with N >= 1 enabled sources, whichever of them fail (transport error
\* or exception), scrape_all_sources returns the deduplicated records of
\* the other sources' pipelines and nothing from the failed ones, with
\* sources_scraped = N and events_found = length of content.
C3_PartialFailureIsolation ==
    (Returned /\ ~NoneEnabled) =>
        /\ Val(ret).content = DeduplicateEvents(ConcatPipelines(EnabledInOrder))
        /\ \A i \in Registry : Failed(i) =>
              \A k \in 1..Len(Val(ret).content) :
                  Val(ret).content[k].source_name # SOURCES[i].name
        /\ Val(ret).sources_scraped = Cardinality({i \in Registry : enabled[i]})
        /\ Val(ret).events_found = Len(Val(ret).content)

\* an earlier source fails and a later one delivers all its records
C3_Witness ==
    /\ Returned
    /\ \E i, j \in Registry :
          /\ i < j
          /\ Failed(i)
          /\ Pipeline(j) # <<>>
          /\ \A k \in 1..Len(Pipeline(j)) :
                \E l \in 1..Len(Val(ret).content) : Val(ret).content[l] = Pipeline(j)[k]

\* the registry position of the source a record names
SourceOf(event) == CHOOSE i \in 1..Len(SOURCES) : SOURCES[i].name = event.source_name

\* the position in its source's pipeline output of the first record with
\* the normalized title of event
PositionOf(event) ==
    CHOOSE p \in 1..Len(Pipeline(SourceOf(event))) :
        /\ NormTitle(Pipeline(SourceOf(event))[p]) = NormTitle(event)
        /\ \A q \in 1..(p - 1) :
              NormTitle(Pipeline(SourceOf(event))[q]) # NormTitle(event)

\* C4: the records of the result are in registry order of their sources and
\* in document order within a source, whatever the order in which the
\* fetches complete; the record kept for a duplicated title is the one of
\* the earliest source in registry order.
C4_RegistryOrder ==
    (Returned /\ ~NoneEnabled) =>
        LET content == Val(ret).content IN
        /\ \A k \in 1..Len(content) :
              /\ enabled[SourceOf(content[k])]
              /\ content[k] = Pipeline(SourceOf(content[k]))[PositionOf(content[k])]
              /\ \A j \in 1..(SourceOf(content[k]) - 1) :
                    \A q \in 1..Len(Pipeline(j)) :
                        NormTitle(Pipeline(j)[q]) # NormTitle(content[k])
        /\ \A k, l \in 1..Len(content) :
              k < l =>
                 \/ SourceOf(content[k]) < SourceOf(content[l])
                 \/ /\ SourceOf(content[k]) = SourceOf(content[l])
                    /\ PositionOf(content[k]) < PositionOf(content[l])

\* the later source completes first and both deliver the same title
C4_Witness ==
    /\ Returned
    /\ \E i, j \in Registry :
          /\ i < j
          /\ \E a, b \in 1..Len(completed) :
                a < b /\ completed[a] = j /\ completed[b] = i
          /\ \E p \in 1..Len(Pipeline(i)) : \E q \in 1..Len(Pipeline(j)) :
                /\ NormTitle(Pipeline(i)[p]) = NormTitle(Pipeline(j)[q])
                /\ Pipeline(i)[p] # Pipeline(j)[q]
                /\ Val(ret).content[1] = Pipeline(i)[p]
          /\ Len(Val(ret).content) >= 3

\* C11: in one scrape_all_sources call every enabled source is sent at
\* most one GET, also after a failure or an empty result; no disabled
\* source is sent any; with no source enabled no request is made at all.
C11_SingleFetch ==
    /\ \A i \in Registry :
          /\ Len(fetches[i]) <= 1
          /\ ~enabled[i] => fetches[i] = <<>>
          /\ served[i] # None => Len(fetches[i]) = 1
    /\ NoneEnabled => /\ \A i \in Registry : fetches[i] = <<>>
                      /\ client = "none"

\* the call has returned; a source's only GET failed, another is disabled
C11_Witness ==
    /\ Returned
    /\ \E i, j \in Registry :
          /\ enabled[i]
          /\ served[i] = Some([kind |-> "http_error"])
          /\ Len(fetches[i]) = 1
          /\ ~enabled[j]
          /\ fetches[j] = <<>>

\* the client is open while the call is inside its `async with` block,
\* while any task is fetching in particular, closed only once every task
\* has ended, and closed when the call has returned or raised
ClientScope ==
    /\ pc \in {"gather", "merged"} => client = "open"
    /\ \A i \in Registry : task[i] \in {"created", "fetching"} => client = "open"
    /\ client = "closed" => \A i \in Registry : task[i] \in {"none", "done"}
    /\ (pc \in {"done", "raised"} /\ ~NoneEnabled) => client = "closed"

\* the call has one client, opened once and closed once, and every GET
\* is sent and answered while it is open
ClientSteps ==
    /\ client' # client =>
          \/ client = "none" /\ client' = "open"
          \/ client = "open" /\ client' = "closed"
    /\ (fetches' # fetches \/ served' # served) =>
          client = "open" /\ client' = "open"

\* C12: in a scrape_all_sources call with an enabled source one HTTP client
\* serves all the per-source tasks; every fetch happens while it is open,
\* it is released only after every task has completed or failed, and it is
\* released on every exit path before the call returns.
C12_ClientReleasedAfterFanIn == []ClientScope /\ [][ClientSteps]_vars

\* the call has returned with the client closed after every fetch failed
C12_Witness ==
    /\ Returned
    /\ client = "closed"
    /\ \A i \in Registry : enabled[i] /\ Failed(i) /\ Len(fetches[i]) = 1
    /\ \E i, j \in Registry :
          /\ Val(served[i]).kind = "http_error"
          /\ Val(served[j]).kind = "exception"

=============================================================================
